---- MODULE Spec2Model ----
(***************************************************************************)
(* A model of takeout_automation/exporter.py: the page-state probe         *)
(* (evaluate_state), the authentication state machine (run_until_ready),   *)
(* the part catalog (extract_parts_info), the download loop                *)
(* (download_files, handle_download) and the browser scope                 *)
(* (download_takeout_archive).                                             *)
(*                                                                         *)
(* Strings are sequences of atoms; "x in s" is sub-sequence search.        *)
(* Python's None is the empty option <<>>, a value v is <<v>>.             *)
(***************************************************************************)
EXTENDS Integers, Sequences, FiniteSets, TLC

\* ------------------------------------------------------------------ bounds
MaxUrlLen == 3
MaxPwdInputs == 1
MaxPart == 2
MaxLinks == 2

\* --------------------------------------------------------------- options
None == <<>>
Some(v) == <<v>>
IsNone(o) == o = <<>>
Val(o) == o[1]

\* ---------------------------------------------------- URL parts (lines 18-21)
ArchiveAtom == "takeout.google.com/manage/archive"
IdentifierAtom == "accounts.google.com/v3/signin/identifier"
ChallengeAtom == "accounts.google.com/v3/signin/challenge"
PwdAtom == "/pwd"
OtherAtom == "https://example.test/"

GOOGLE_ARCHIVE_URL_PART == <<ArchiveAtom>>
GOOGLE_IDENTIFIER_PAGE_URL_PART == <<IdentifierAtom>>
GOOGLE_PASSWORD_PAGE_URL_PART == <<ChallengeAtom, PwdAtom>>
GOOGLE_2FA_PAGE_URL_PART == <<ChallengeAtom>>

UrlAtoms == {ArchiveAtom, IdentifierAtom, ChallengeAtom, PwdAtom, OtherAtom}

SeqsUpTo(S, n) == UNION {[1..k -> S] : k \in 0..n}

Urls == SeqsUpTo(UrlAtoms, MaxUrlLen)

\* Python's "part in url" on strings.
Contains(part, url) ==
    \E k \in 0..(Len(url) - Len(part)) : SubSeq(url, k + 1, k + Len(part)) = part

\* ------------------------------------------------------- AuthState (33-41)
UNKNOWN == "unknown"
ARCHIVE_READY == "archive_ready"
NEEDS_IDENTIFIER == "needs_identifier"
NEEDS_PASSWORD == "needs_password"
NEEDS_2FA == "needs_2fa"
ERROR == "error"

AuthState == {UNKNOWN, ARCHIVE_READY, NEEDS_IDENTIFIER, NEEDS_PASSWORD, NEEDS_2FA, ERROR}

\* ------------------------------------------------------------- the page
\* What one evaluation sees of the page: its URL, the outcome of the query for
\* password inputs (Some(count), or None when the query raises), and whether
\* the bounded wait for the load state timed out.
QueryRaises == None

PwdQueries == {QueryRaises} \cup {Some(n) : n \in 0..MaxPwdInputs}

Pages == [url : Urls, pwd : PwdQueries, load_timeout : BOOLEAN]

detect_archive_page(page) == Contains(GOOGLE_ARCHIVE_URL_PART, page.url)

detect_identifier_page(page) == Contains(GOOGLE_IDENTIFIER_PAGE_URL_PART, page.url)

detect_password_page_no_input_check(page) ==
    Contains(GOOGLE_PASSWORD_PAGE_URL_PART, page.url)

detect_password_page(page) ==
    IF ~Contains(GOOGLE_PASSWORD_PAGE_URL_PART, page.url) THEN FALSE
    ELSE IF page.pwd = QueryRaises THEN FALSE
    ELSE Val(page.pwd) > 0

detect_2fa_page_any_challenge(page) == Contains(GOOGLE_2FA_PAGE_URL_PART, page.url)

detect_2fa_page(page) ==
    /\ Contains(GOOGLE_2FA_PAGE_URL_PART, page.url)
    /\ ~Contains(GOOGLE_PASSWORD_PAGE_URL_PART, page.url)

\* The wait for the load state only delays: its timeout is swallowed.
evaluate_state(page) ==
    IF detect_archive_page(page) THEN ARCHIVE_READY
    ELSE IF detect_identifier_page(page) THEN NEEDS_IDENTIFIER
    ELSE IF detect_password_page(page) THEN NEEDS_PASSWORD
    ELSE IF detect_2fa_page(page) THEN NEEDS_2FA
    ELSE UNKNOWN

\* ------------------------------------------------ the catalog (266-338)
\* A label is the sequence of its space-separated words. The locator
\* a[aria-label^="Download"] only yields labels that start with "Download".
Numeral(n) == <<"0", "1", "2", "3", "4", "5", "6", "7", "8", "9">>[n + 1]

\* int(word): Some(n), or None for ValueError.
ParseInt(word) ==
    IF \E n \in 0..9 : Numeral(n) = word
    THEN Some(CHOOSE n \in 0..9 : Numeral(n) = word)
    ELSE None

SetMin(S) == CHOOSE m \in S : \A o \in S : m <= o

\* The places of "part " in the label: a word "part" that another word follows.
PartMarks(label) == {k \in 1..(Len(label) - 1) : label[k] = "part"}

\* int(aria_label.split("part ")[1].split()[0]): Some(n), or None when
\* IndexError or ValueError is raised (and caught).
ParsePartNumber(label) ==
    IF PartMarks(label) = {} THEN None
    ELSE LET k == SetMin(PartMarks(label))
             later == {j \in PartMarks(label) : j > k}
             last == IF later = {} THEN Len(label) ELSE SetMin(later) - 1
             piece == SubSeq(label, k + 1, last)
         IN IF piece = <<>> THEN None ELSE ParseInt(piece[1])

PartNumbers == 1..MaxPart

\* The sizes a data-size attribute declares, and the sizes a saved file can have.
DeclaredSizes == {1000}

ActualSizes == {999, 1000}

GoodLabel(again, n) ==
    (IF again THEN <<"Download", "again">> ELSE <<"Download">>)
        \o <<"part", Numeral(n), "of", Numeral(MaxPart)>>

Labels ==
    {GoodLabel(a, n) : a \in BOOLEAN, n \in PartNumbers}
        \cup {<<"Download">>, <<"Download", "part">>, <<"Download", "part", "all">>}

\* One rendered download link: its aria-label, its href (None when absent), whether
\* the enclosing li holds "Download started", and the data-size of the enclosing
\* div (None when there is no such div).
Links ==
    [aria_label : Labels,
     href : {None, Some("href")},
     li_started : BOOLEAN,
     data_size : {None} \cup {Some(z) : z \in DeclaredSizes}]

RenderedLinks == SeqsUpTo(Links, MaxLinks)

PartInfoOf(link) ==
    [part_number |-> Val(ParsePartNumber(link.aria_label)),
     link |-> Val(link.href),
     downloaded |-> link.li_started,
     size |-> link.data_size]

\* The loop of lines 277-318: a link without a parseable part number or without
\* an href is skipped.
RECURSIVE CollectParts(_)
CollectParts(links) ==
    IF links = <<>> THEN <<>>
    ELSE LET link == Head(links)
             rest == CollectParts(Tail(links))
         IN IF IsNone(ParsePartNumber(link.aria_label)) THEN rest
            ELSE IF IsNone(link.href) THEN rest
            ELSE <<PartInfoOf(link)>> \o rest

\* list.sort(key=part_number): a stable sort, as an insertion sort.
RECURSIVE InsertByPartNumber(_, _)
InsertByPartNumber(sorted, part) ==
    IF sorted = <<>> THEN <<part>>
    ELSE IF Head(sorted).part_number <= part.part_number
         THEN <<Head(sorted)>> \o InsertByPartNumber(Tail(sorted), part)
         ELSE <<part>> \o sorted

RECURSIVE SortByPartNumber(_)
SortByPartNumber(parts) ==
    IF parts = <<>> THEN <<>>
    ELSE InsertByPartNumber(SortByPartNumber(SubSeq(parts, 1, Len(parts) - 1)),
                            parts[Len(parts)])

extract_parts_info_unsorted(links) == CollectParts(links)

extract_parts_info(links) == SortByPartNumber(CollectParts(links))

find_part_by_position(parts_info, part_number) ==
    IF part_number \in 1..Len(parts_info) THEN Some(parts_info[part_number]) ELSE None

\* find_part_to_download: Some(the first part with that number), or None when
\* ValueError is raised.
find_part_to_download(parts_info, part_number) ==
    LET hits == {k \in 1..Len(parts_info) : parts_info[k].part_number = part_number}
    IN IF hits = {} THEN None ELSE Some(parts_info[SetMin(hits)])

available_parts(parts_info) == [k \in 1..Len(parts_info) |-> parts_info[k].part_number]

MaxPartNumber(parts_info) ==
    CHOOSE m \in {parts_info[k].part_number : k \in 1..Len(parts_info)} :
        \A k \in 1..Len(parts_info) : parts_info[k].part_number <= m

\* --------------------------------------------------------------- the state
VARIABLES
    pc,              \* where the program is
    exc,             \* the exception being propagated ("none" when none is)
    outcome,         \* how download_takeout_archive ended
    archive_url,     \* argument: the archive URL
    start_part,      \* argument
    skip_downloaded, \* argument
    google_pass,     \* settings.google_pass
    dirs_created,    \* whether the two mkdir calls have run
    context,         \* the browser context: "none", "launched", "open", "closed"
    close_attempts,  \* calls of context.close()
    i,               \* download_files: the cursor
    parts_info,      \* download_files: the catalog of this iteration
    part_to_download,\* download_files: the record found for i
    last_click,      \* the record of the most recent download click
    report,          \* the part numbers listed by the ValueError of line 335
    hd,              \* what the most recent handle_download did
    am_return,       \* where run_until_ready returns to
    am_archive_url,  \* AuthenticationStateMachine.archive_url
    current_state,   \* AuthenticationStateMachine.current_state
    unknown_count,   \* AuthenticationStateMachine.unknown_count
    new_state,       \* run_until_ready: the classification of the latest tick
    last_action,     \* what the latest tick did
    unk_seq,         \* consecutive UNKNOWN classifications (see CountUnknowns)
    page,            \* the page, where a specification keeps it
    links,           \* the rendered links, where a specification keeps them
    interrupted,     \* whether Ctrl+C was delivered to the run (KeyboardInterrupt)
    completed        \* the part numbers persisted or skipped so far, in order

inputs == <<archive_url, start_part, skip_downloaded, google_pass>>

scopeVars == <<dirs_created, context, close_attempts, outcome>>

loopVars == <<i, parts_info, part_to_download, last_click, report, hd>>

amVars == <<am_return, am_archive_url, current_state, unknown_count, new_state,
            last_action, unk_seq>>

envVars == <<page, links>>

histVars == <<interrupted, completed>>

vars == <<pc, exc, inputs, scopeVars, loopVars, amVars, envVars, histVars>>

KeyboardInterrupt == "KeyboardInterrupt"
ValueError == "ValueError"
Exception == "Exception"
\* What input() raises on a closed stdin; a subclass of Exception.
EOFError == "EOFError"

\* --------------------------------------------------- raising and catching
AmPcs == {"am_navigate", "am_tick"}

\* Whether the program is inside the try block of download_files (419-437),
\* which holds the click, the run_until_ready after it and handle_download.
InTryFromFind ==
    \/ pc \in {"find", "click", "await_download", "handle_download"}
    \/ pc \in AmPcs /\ am_return = "await_download"

InTry ==
    \/ pc \in {"click", "await_download", "handle_download"}
    \/ pc \in AmPcs /\ am_return = "await_download"

\* Where control goes when `kind` is raised at pc. Line 439 catches Exception, and
\* so not KeyboardInterrupt, and the loop continues; anything else leaves
\* download_files for the handlers of download_takeout_archive (476-481).
CatchesAll(kind) == TRUE

CatchesNone(kind) == FALSE

\* Line 439, "except Exception": KeyboardInterrupt is a BaseException.
Catches(kind) == kind # KeyboardInterrupt

Raise(kind) ==
    /\ interrupted' = (interrupted \/ kind = KeyboardInterrupt)
    /\ IF pc \in AmPcs /\ am_return = "am_done"
       THEN pc' = "am_raised" /\ exc' = kind
       ELSE IF InTry /\ Catches(kind)
            THEN pc' = "confirm" /\ exc' = "none"
            ELSE pc' = "dta_except" /\ exc' = kind

\* ------------------------------------ AuthenticationStateMachine (44-215)
UnknownThreshold == 10

\* __init__ (50-57); new_state is the local of run_until_ready, not yet assigned.
NewMachine(url, ret) ==
    /\ am_archive_url' = url
    /\ am_return' = ret
    /\ current_state' = UNKNOWN
    /\ unknown_count' = 0
    /\ new_state' = "unassigned"
    /\ last_action' = "none"
    /\ unk_seq' = 0

\* Lines 198-202.
CountUnknownsAlwaysZero(s, count) == 0

CountUnknowns(s, count) == IF s = UNKNOWN THEN count + 1 ELSE 0

\* Line 205.
ShouldHandleAlways(s, cur) == TRUE

ShouldHandle(s, cur) == s # cur \/ s = UNKNOWN

\* Line 172.
EscalatesAtThreshold(count) == count >= UnknownThreshold

Escalates(count) == count > UnknownThreshold

CountAfterPromptKept(count) == count

\* Line 177: the count after the escalation prompt.
CountAfterPrompt(count) == 0

\* Line 105: "not settings.google_pass".
HasPass(gp) == ~IsNone(gp) /\ Val(gp) # <<>>

\* The consecutive UNKNOWN classifications of this machine up to this tick, since
\* its last other classification and since its last escalation prompt; counts
\* beyond UnknownThreshold + 2 are not told apart.
UnkSeqAfter(s) ==
    IF s # UNKNOWN THEN 0
    ELSE IF last_action = "unknown_prompt" THEN 1
    ELSE IF unk_seq >= UnknownThreshold + 2 THEN unk_seq
    ELSE unk_seq + 1

PromptActions ==
    {"prompt_identifier", "prompt_2fa", "password_manual", "password_fallback",
     "unknown_prompt"}

\* run_until_ready returns True.
AmReturn == pc' = am_return /\ exc' = exc

\* A recovery action `act` that blocks (input(), time.sleep, the automated entry)
\* and ends, leaving the count at `after`; then the sleep of line 215 and the
\* next iteration.
Blocking(act, after) ==
    /\ last_action' = act
    /\ unknown_count' = after
    /\ pc' = "am_tick"
    /\ exc' = exc

\* The machine is a temporary of its caller: once run_until_ready is left by an
\* exception nothing refers to it.
DropMachine ==
    /\ am_archive_url' = None
    /\ am_return' = "none"
    /\ current_state' = UNKNOWN
    /\ unknown_count' = 0
    /\ new_state' = "unassigned"
    /\ last_action' = "none"
    /\ unk_seq' = 0

\* handle_password_entry (103-144): without a credential the human prompt; with
\* one the automated entry, and the human prompt when it raises.
handle_password_entry(count) ==
    IF ~HasPass(google_pass)
    THEN Blocking("password_manual", count)
    ELSE \/ Blocking("password_auto", count)
         \/ Blocking("password_fallback", count)

IsReadyOrTwoFactor(s) == s \in {ARCHIVE_READY, NEEDS_2FA}

\* Lines 148 and 211: the state for which handle_state returns True and
\* run_until_ready returns.
IsReady(s) == s = ARCHIVE_READY

\* handle_state (146-185), with what follows it in the loop (207-215).
handle_state(s, count) ==
    IF IsReady(s)
    THEN unknown_count' = count /\ last_action' = "none" /\ AmReturn
    ELSE IF s = NEEDS_IDENTIFIER THEN Blocking("prompt_identifier", count)
    ELSE IF s = NEEDS_PASSWORD THEN handle_password_entry(count)
    ELSE IF s = NEEDS_2FA THEN Blocking("prompt_2fa", count)
    ELSE IF s = UNKNOWN
         THEN IF Escalates(count)
              THEN Blocking("unknown_prompt", CountAfterPrompt(count))
              ELSE Blocking("unknown_wait", count)
    ELSE Blocking("none", count)

EntryFailurePropagates(s) == s = NEEDS_PASSWORD /\ HasPass(google_pass)

\* Lines 115 and 141: the automated entry runs inside try, and "except Exception"
\* takes whatever it raises (a timeout of wait_for or of wait_for_load_state, an
\* error of click, type or press), so none of it leaves handle_password_entry.
EntryFailureRaises(s) == FALSE

\* Whether handle_state(s) calls input(): lines 155, 168 and 176, and in
\* handle_password_entry 109 (no credential) and 144 (after a failed entry).
CallsInput(s, count) ==
    \/ s \in {NEEDS_IDENTIFIER, NEEDS_PASSWORD, NEEDS_2FA}
    \/ s = UNKNOWN /\ Escalates(count)

\* One iteration of the loop of run_until_ready (194-215) that classifies s. No
\* handler surrounds input(): when it raises (EOFError on a closed stdin) the
\* exception leaves run_until_ready.
TickOn(s) ==
    LET count == CountUnknowns(s, unknown_count)
    IN /\ pc = "am_tick"
       /\ \/ /\ interrupted' = interrupted
             /\ new_state' = s
             /\ unk_seq' = UnkSeqAfter(s)
             /\ IF ShouldHandle(s, current_state)
                THEN /\ current_state' = s
                     /\ handle_state(s, count)
                ELSE /\ current_state' = current_state
                     /\ IF IsReady(s)
                        THEN unknown_count' = count /\ last_action' = "none" /\ AmReturn
                        ELSE Blocking("none", count)
             /\ UNCHANGED <<am_return, am_archive_url>>
          \/ /\ ShouldHandle(s, current_state)
             /\ \/ CallsInput(s, count) /\ Raise(EOFError)
                \/ EntryFailureRaises(s) /\ Raise(Exception)
             /\ DropMachine

\* Lines 189-192: navigate when a URL was given and the page is not the archive.
NavigateOn(at_archive) ==
    /\ pc = "am_navigate"
    /\ IF ~IsNone(am_archive_url) /\ Val(am_archive_url) # <<>> /\ ~at_archive
       THEN \/ /\ pc' = "am_tick" /\ exc' = exc /\ last_action' = "goto"
               /\ interrupted' = interrupted
               /\ UNCHANGED <<am_return, am_archive_url, current_state, unknown_count,
                              new_state, unk_seq>>
            \/ Raise(Exception) /\ DropMachine
       ELSE /\ pc' = "am_tick" /\ exc' = exc /\ last_action' = "none"
            /\ interrupted' = interrupted
            /\ UNCHANGED <<am_return, am_archive_url, current_state, unknown_count,
                           new_state, unk_seq>>

\* Ctrl+C during a wait of run_until_ready (the load-state wait of each
\* evaluation, input(), time.sleep, goto, the automated entry): none of its
\* handlers catches KeyboardInterrupt.
InterruptMachine ==
    /\ pc \in AmPcs
    /\ Raise(KeyboardInterrupt)
    /\ DropMachine

\* The pages the browser shows during a run: the archive, the sign-in pages (the
\* password URL with and without its input, and with the query failing), a
\* challenge, and another site.
PageAt(url, pwd) == [url |-> url, pwd |-> pwd, load_timeout |-> FALSE]

SamplePages ==
    {PageAt(<<ArchiveAtom>>, Some(0)),
     PageAt(<<IdentifierAtom>>, Some(0)),
     PageAt(<<ChallengeAtom, PwdAtom>>, Some(1)),
     PageAt(<<ChallengeAtom, PwdAtom>>, Some(0)),
     PageAt(<<ChallengeAtom, PwdAtom>>, QueryRaises),
     PageAt(<<ChallengeAtom>>, Some(0)),
     PageAt(<<OtherAtom>>, Some(0))}

\* run_until_ready in the download loop: the page is whatever the browser shows
\* at that moment.
AmNavigate ==
    /\ \E p \in SamplePages : NavigateOn(Contains(GOOGLE_ARCHIVE_URL_PART, p.url))
    /\ UNCHANGED <<inputs, scopeVars, loopVars, envVars, completed>>

AmTick ==
    /\ \E p \in SamplePages : TickOn(evaluate_state(p))
    /\ UNCHANGED <<inputs, scopeVars, loopVars, envVars, completed>>

AmInterrupt ==
    /\ InterruptMachine
    /\ UNCHANGED <<inputs, scopeVars, loopVars, envVars, completed>>

\* ------------------------------------------------ download_files (376-447)
\* The pages the download loop meets: any number of links up to MaxLinks, in any
\* order, each with a part number and an href. (A link without one is dropped by
\* CollectParts, so that these pages yield every catalog that any page yields.)
WellFormedLinks == {l \in Links : l.aria_label \in {GoodLabel(FALSE, n) : n \in PartNumbers}
                                   /\ ~IsNone(l.href)}

WellFormedPages == SeqsUpTo(WellFormedLinks, MaxLinks)

\* wait_for_user_confirmation (248-263) and lines 390-395: the pause ends and the
\* machine for this iteration is made, or Ctrl+C ends the pause and download_files
\* returns. parts_info and part_to_download are assigned before they are read in
\* every iteration: the values of the iteration before are dropped here.
Confirm ==
    /\ pc = "confirm"
    /\ \/ /\ NewMachine(Some(archive_url), "extract")
          /\ pc' = "am_navigate"
          /\ outcome' = outcome
          /\ interrupted' = interrupted
       \/ /\ pc' = "dta_finally"
          /\ outcome' = "returned"
          /\ interrupted' = TRUE
          /\ UNCHANGED amVars
    /\ parts_info' = <<>>
    /\ part_to_download' = None
    /\ hd' = None
    /\ UNCHANGED <<exc, inputs, dirs_created, context, close_attempts, i, last_click,
                   report, envVars, completed>>

CatalogNeverEmpty(parts) == FALSE

\* Line 399, "not parts_info".
CatalogIsEmpty(parts) == parts = <<>>

\* Lines 398-401.
Extract ==
    /\ pc = "extract"
    /\ \/ \E rendered \in WellFormedPages :
             /\ parts_info' = extract_parts_info(rendered)
             /\ pc' = IF CatalogIsEmpty(extract_parts_info(rendered))
                      THEN "confirm" ELSE "find"
             /\ exc' = exc
             /\ interrupted' = interrupted
       \/ Raise(Exception) /\ parts_info' = parts_info
    /\ UNCHANGED <<inputs, scopeVars, i, part_to_download, last_click, report, hd,
                   amVars, envVars, completed>>

\* Line 404, find_part_to_download (325-338).
Find ==
    /\ pc = "find"
    /\ LET found == find_part_to_download(parts_info, i)
       IN IF IsNone(found)
          THEN /\ report' = Some(available_parts(parts_info))
               /\ part_to_download' = part_to_download
               /\ Raise(ValueError)
          ELSE /\ part_to_download' = found
               /\ report' = report
               /\ pc' = "skip_check"
               /\ exc' = exc
               /\ interrupted' = interrupted
    /\ UNCHANGED <<inputs, scopeVars, i, parts_info, last_click, hd, amVars, envVars,
                   completed>>

\* Lines 410-416.
SkipsIgnoringFlag(part, skip) == part.downloaded

SkipsInverted(part, skip) == part.downloaded /\ ~skip

Skips(part, skip) == part.downloaded /\ skip

SkipCheck ==
    /\ pc = "skip_check"
    /\ IF Skips(Val(part_to_download), skip_downloaded)
       THEN /\ i' = i + 1
            /\ pc' = "confirm"
            /\ completed' = Append(completed, Val(part_to_download).part_number)
       ELSE /\ i' = i
            /\ pc' = "click"
            /\ completed' = completed
    /\ UNCHANGED <<exc, inputs, scopeVars, parts_info, part_to_download, last_click,
                   report, hd, amVars, envVars, interrupted>>

PostClickUrlArchive == Some(archive_url)

\* Line 430: the machine after the click is made without archive_url.
PostClickUrl == None

\* Lines 418-430: the click on the link of part_to_download, the sleep of 3 s and
\* the machine made for the check after the click (no URL: it never navigates).
Click ==
    /\ pc = "click"
    /\ \/ /\ last_click' = part_to_download
          /\ NewMachine(PostClickUrl, "await_download")
          /\ pc' = "am_navigate"
          /\ exc' = exc
          /\ interrupted' = interrupted
       \/ /\ last_click' = last_click
          /\ Raise(Exception)
          /\ UNCHANGED amVars
       \/ /\ last_click' = part_to_download
          /\ Raise(KeyboardInterrupt)
          /\ UNCHANGED amVars
    /\ UNCHANGED <<inputs, scopeVars, i, parts_info, part_to_download, report, hd,
                   envVars, completed>>

\* The end of the with block (421, 432-434): the download has started, or the wait
\* of 120 s for it times out, or Ctrl+C ends it.
AwaitDownload ==
    /\ pc = "await_download"
    /\ \/ pc' = "handle_download" /\ exc' = exc /\ interrupted' = interrupted
       \/ Raise(Exception)
       \/ Raise(KeyboardInterrupt)
    /\ UNCHANGED <<inputs, scopeVars, loopVars, amVars, envVars, completed>>

\* What handle_download (341-373) did: how far it got, the outcome of the size
\* check, and the removal of the temporary file.
Persisted(stage, check, attempted, removed) ==
    Some([stage |-> stage, size_check |-> check, unlink_attempted |-> attempted,
          tmp_removed |-> removed])

\* Lines 358-366: no check without an expected size, else the comparison.
SizeCheck(expected_size, actual_size) ==
    IF IsNone(expected_size) THEN "none"
    ELSE IF actual_size # Val(expected_size) THEN "mismatch"
    ELSE "verified"

\* Whether handle_download raises on that outcome of the size check.
MismatchRaises(check) == check = "mismatch"

SizeCheckRaises(check) == FALSE

UnlinkFailurePropagates(removed) == ~removed

\* Lines 369-373: whether a failure of the unlink leaves handle_download.
UnlinkFailureRaises(removed) == FALSE

HandleDownload ==
    /\ pc = "handle_download"
    /\ LET expected_size == Val(part_to_download).size
       IN \/ hd' = Persisted("path", "none", FALSE, FALSE) /\ Raise(Exception)
          \/ hd' = Persisted("path", "none", FALSE, FALSE) /\ Raise(KeyboardInterrupt)
          \/ hd' = Persisted("save_as", "none", FALSE, FALSE) /\ Raise(Exception)
          \/ /\ ~IsNone(expected_size)
             /\ hd' = Persisted("stat", "none", FALSE, FALSE)
             /\ Raise(Exception)
          \/ \E actual_size \in ActualSizes, removed \in BOOLEAN :
                LET check == SizeCheck(expected_size, actual_size)
                IN IF SizeCheckRaises(check)
                   THEN hd' = Persisted("verify", check, FALSE, FALSE) /\ Raise(Exception)
                   ELSE IF UnlinkFailureRaises(removed)
                   THEN hd' = Persisted("unlink", check, TRUE, removed) /\ Raise(Exception)
                   ELSE /\ hd' = Persisted("done", check, TRUE, removed)
                        /\ pc' = "advance"
                        /\ exc' = exc
                        /\ interrupted' = interrupted
    /\ UNCHANGED <<inputs, scopeVars, i, parts_info, part_to_download, last_click,
                   report, amVars, envVars, completed>>

\* Lines 437 and 443-447: the cursor moves on, and the loop ends after the last
\* part of this iteration's catalog.
Advance ==
    /\ pc = "advance"
    /\ i' = i + 1
    /\ completed' = Append(completed, Val(last_click).part_number)
    /\ IF i + 1 > MaxPartNumber(parts_info)
       THEN pc' = "dta_finally" /\ outcome' = "returned"
       ELSE pc' = "confirm" /\ outcome' = outcome
    /\ UNCHANGED <<exc, inputs, dirs_created, context, close_attempts, parts_info,
                   part_to_download, last_click, report, hd, amVars, envVars,
                   interrupted>>

\* ---------------------------------------- download_takeout_archive (450-489)
HlAtom == "hl=en"

\* The "?" that starts the query of a URL; the atoms after it are its query.
QueryMark == "?"

\* urlencode (223) quotes every key and value with quote_plus: "/" and ":" are
\* percent-encoded.
quote_plus(atom) ==
    CASE atom = ArchiveAtom -> "takeout.google.com%2Fmanage%2Farchive"
      [] atom = IdentifierAtom -> "accounts.google.com%2Fv3%2Fsignin%2Fidentifier"
      [] atom = ChallengeAtom -> "accounts.google.com%2Fv3%2Fsignin%2Fchallenge"
      [] atom = PwdAtom -> "%2Fpwd"
      [] atom = OtherAtom -> "https%3A%2F%2Fexample.test%2F"
      [] OTHER -> atom

\* prepare_archive_url (218-224): the query is parsed, hl=en is set in it, and it
\* is encoded again; the rest of the URL is kept.
prepare_archive_url(url) ==
    LET marks == {k \in 1..Len(url) : url[k] = QueryMark}
        q == IF marks = {} THEN Len(url) + 1 ELSE SetMin(marks)
        query == SubSeq(url, q + 1, Len(url))
        kept == SelectSeq(query, LAMBDA atom : atom # HlAtom)
    IN SubSeq(url, 1, q - 1) \o <<QueryMark>>
          \o [k \in 1..Len(kept) |-> quote_plus(kept[k])] \o <<HlAtom>>

AnyUrlValid(url) == TRUE

\* Line 459.
ValidArchiveUrl(url) == Contains(GOOGLE_ARCHIVE_URL_PART, url)

\* Lines 457-460.
Validate ==
    /\ pc = "validate"
    /\ archive_url' = prepare_archive_url(archive_url)
    /\ IF ~ValidArchiveUrl(prepare_archive_url(archive_url))
       THEN pc' = "exit" /\ exc' = ValueError /\ outcome' = "raised"
       ELSE pc' = "mkdirs" /\ exc' = exc /\ outcome' = outcome
    /\ UNCHANGED <<start_part, skip_downloaded, google_pass, dirs_created, context,
                   close_attempts, loopVars, amVars, envVars, histVars>>

\* Lines 462-467.
MakeDirs ==
    /\ pc = "mkdirs"
    /\ \/ dirs_created' = TRUE /\ pc' = "setup" /\ exc' = exc /\ outcome' = outcome
       \/ dirs_created' = dirs_created /\ pc' = "exit" /\ exc' = Exception
             /\ outcome' = "raised"
    /\ UNCHANGED <<inputs, context, close_attempts, loopVars, amVars, envVars, histVars>>

\* Lines 469-470, setup_browser_context (227-245): the launch of the context and
\* its first page; either call can raise, before the try block is entered.
Setup ==
    /\ pc = "setup"
    /\ \/ /\ context' = "open"
          /\ pc' = "confirm"
          /\ i' = start_part
          /\ exc' = exc /\ outcome' = outcome
       \/ /\ context' \in {"none", "launched"}
          /\ pc' = "exit"
          /\ i' = i
          /\ exc' = Exception /\ outcome' = "raised"
    /\ UNCHANGED <<inputs, dirs_created, close_attempts, parts_info, part_to_download,
                   last_click, report, hd, amVars, envVars, histVars>>

\* download_files was left by an exception: its catalog and its record are gone.
DropLocals ==
    /\ parts_info' = <<>>
    /\ part_to_download' = None

\* Lines 476-478: return; the finally clause still runs.
ExceptKeyboardInterrupt ==
    /\ pc = "dta_except"
    /\ exc = KeyboardInterrupt
    /\ pc' = "dta_finally"
    /\ exc' = "none"
    /\ outcome' = "interrupted"
    /\ DropLocals
    /\ UNCHANGED <<inputs, dirs_created, context, close_attempts, i, last_click, report,
                   hd, amVars, envVars, histVars>>

\* Lines 479-481: re-raised after the finally clause.
ExceptException ==
    /\ pc = "dta_except"
    /\ exc # KeyboardInterrupt
    /\ pc' = "dta_finally"
    /\ exc' = exc
    /\ outcome' = "raised"
    /\ DropLocals
    /\ UNCHANGED <<inputs, dirs_created, context, close_attempts, i, last_click, report,
                   hd, amVars, envVars, histVars>>

\* Line 482: a finally clause runs however the try statement is left, also on the
\* return of line 478.
RunsFinallyUnlessInterrupted(how) == how # "interrupted"

RunsFinally(how) == TRUE

\* Lines 482-489: context.close(), whose own exception is swallowed.
Finally ==
    /\ pc = "dta_finally"
    /\ IF RunsFinally(outcome)
       THEN /\ close_attempts' = close_attempts + 1
            /\ context' \in {"closed", "open"}
       ELSE UNCHANGED <<close_attempts, context>>
    /\ pc' = "exit"
    /\ UNCHANGED <<exc, inputs, dirs_created, outcome, loopVars, amVars, envVars, histVars>>

\* ------------------------------------------------------- the specification
StartParts == 1..(MaxPart + 1)

ArchiveUrlInputs ==
    {<<OtherAtom, ArchiveAtom>>, <<OtherAtom>>, <<IdentifierAtom>>,
     <<OtherAtom, QueryMark, ArchiveAtom>>}

GooglePassInputs == {None, Some(<<"p", "w">>)}

NoPage == [url |-> <<>>, pwd |-> QueryRaises, load_timeout |-> FALSE]

Idle ==
    /\ exc = "none"
    /\ outcome = "running"
    /\ dirs_created = FALSE
    /\ context = "none"
    /\ close_attempts = 0
    /\ i = 0
    /\ parts_info = <<>>
    /\ part_to_download = None
    /\ last_click = None
    /\ report = None
    /\ hd = None
    /\ am_return = "none"
    /\ am_archive_url = None
    /\ current_state = UNKNOWN
    /\ unknown_count = 0
    /\ new_state = "unassigned"
    /\ last_action = "none"
    /\ unk_seq = 0
    /\ interrupted = FALSE
    /\ completed = <<>>

Init ==
    /\ pc = "validate"
    /\ archive_url \in ArchiveUrlInputs
    /\ start_part \in StartParts
    /\ skip_downloaded \in BOOLEAN
    /\ google_pass \in GooglePassInputs
    /\ Idle
    /\ page = NoPage
    /\ links = <<>>

Next ==
    \/ Validate
    \/ MakeDirs
    \/ Setup
    \/ Confirm
    \/ AmNavigate
    \/ AmTick
    \/ AmInterrupt
    \/ Extract
    \/ Find
    \/ SkipCheck
    \/ Click
    \/ AwaitDownload
    \/ HandleDownload
    \/ Advance
    \/ ExceptKeyboardInterrupt
    \/ ExceptException
    \/ Finally

Spec == Init /\ [][Next]_vars

\* ------------------------------------------- evaluate_state on every page
InitProbe ==
    /\ pc = "probe"
    /\ page \in Pages
    /\ archive_url = <<>>
    /\ start_part = 1
    /\ skip_downloaded = FALSE
    /\ google_pass = None
    /\ Idle
    /\ links = <<>>

Probe ==
    /\ pc = "probe"
    /\ new_state' = evaluate_state(page)
    /\ pc' = "probed"
    /\ UNCHANGED <<exc, inputs, scopeVars, loopVars, am_return, am_archive_url,
                   current_state, unknown_count, last_action, unk_seq, envVars, histVars>>

NextProbe == Probe

SpecProbe == InitProbe /\ [][NextProbe]_vars

\* ------------------------------------ extract_parts_info on every rendering
InitCatalog ==
    /\ pc = "rendered"
    /\ links \in RenderedLinks
    /\ archive_url = <<>>
    /\ start_part = 1
    /\ skip_downloaded = FALSE
    /\ google_pass = None
    /\ Idle
    /\ page = NoPage

ExtractRendered ==
    /\ pc = "rendered"
    /\ parts_info' = extract_parts_info(links)
    /\ pc' = "extracted"
    /\ UNCHANGED <<exc, inputs, scopeVars, i, part_to_download, last_click, report, hd,
                   amVars, envVars, histVars>>

NextCatalog == ExtractRendered

SpecCatalog == InitCatalog /\ [][NextCatalog]_vars

\* ------------------------------------- run_until_ready against a live page
\* One call of run_until_ready on a page that changes on its own (redirects, the
\* human acting in the browser). The loop of 194-215 keeps iterating; nothing is
\* assumed of the page.
InitAuth ==
    /\ pc = "am_navigate"
    /\ page \in SamplePages
    /\ archive_url = prepare_archive_url(<<OtherAtom, ArchiveAtom>>)
    /\ start_part = 1
    /\ skip_downloaded = FALSE
    /\ google_pass \in {None, Some(<<>>), Some(<<"p", "w">>)}
    /\ exc = "none"
    /\ outcome = "running"
    /\ dirs_created = TRUE
    /\ context = "open"
    /\ close_attempts = 0
    /\ i = 1
    /\ parts_info = <<>>
    /\ part_to_download = None
    /\ last_click = None
    /\ report = None
    /\ hd = None
    /\ am_return = "am_done"
    /\ am_archive_url \in {None, Some(archive_url)}
    /\ current_state = UNKNOWN
    /\ unknown_count = 0
    /\ new_state = "unassigned"
    /\ last_action = "none"
    /\ unk_seq = 0
    /\ interrupted = FALSE
    /\ completed = <<>>
    /\ links = <<>>

PageChanges ==
    /\ pc \in AmPcs
    /\ page' \in SamplePages \ {page}
    /\ UNCHANGED <<pc, exc, inputs, scopeVars, loopVars, amVars, links, histVars>>

AmNavigatePage ==
    /\ NavigateOn(Contains(GOOGLE_ARCHIVE_URL_PART, page.url))
    /\ UNCHANGED <<inputs, scopeVars, loopVars, envVars, completed>>

AmTickPage ==
    /\ TickOn(evaluate_state(page))
    /\ UNCHANGED <<inputs, scopeVars, loopVars, envVars, completed>>

NextAuth ==
    \/ PageChanges
    \/ AmNavigatePage
    \/ AmTickPage
    \/ AmInterrupt

SpecAuth == InitAuth /\ [][NextAuth]_vars

\* The loop runs on: each step of run_until_ready that can be taken is taken in
\* the end (a prompt is answered, a sleep ends).
FairSpecAuth == SpecAuth /\ WF_vars(AmNavigatePage) /\ WF_vars(AmTickPage)

\* ================================================================ the claims

\* C1: download_files leaves its loop and returns normally as soon as the cursor
\* exceeds the largest part number of the latest catalog, whether the cursor was
\* advanced by a download or by the skip of an already downloaded part.
C1_LoopEndsPastLastPart ==
    [][(/\ pc \in {"skip_check", "advance"}
        /\ i' = i + 1
        /\ i' > MaxPartNumber(parts_info))
       => (pc' = "dta_finally" /\ outcome' = "returned")]_vars

\* C2: a catalog that is not empty and holds no part with the cursor's number
\* makes download_files raise ValueError with a report of every part number of
\* the catalog; the step clicks nothing and leaves the cursor, and the error is
\* never turned into another iteration: it goes through the finally clause and
\* out.
C2_MissingPartIsFatal ==
    /\ [][(pc = "find" /\ \A k \in 1..Len(parts_info) : parts_info[k].part_number # i)
           => (/\ pc' = "dta_except"
               /\ exc' = ValueError
               /\ report' # None
               /\ Len(Val(report')) = Len(parts_info)
               /\ \A k \in 1..Len(parts_info) :
                      Val(report')[k] = parts_info[k].part_number
               /\ i' = i
               /\ last_click' = last_click)]_vars
    /\ [][exc = ValueError
           => (/\ pc' \in {"dta_finally", "exit"}
               /\ exc' = ValueError
               /\ i' = i
               /\ last_click' = last_click)]_vars
    /\ [](pc = "exit" /\ exc = ValueError => outcome = "raised")

\* C2 witness: the catalog [1, 2] with the cursor at 3, before any click.
C2_Witness ==
    /\ pc = "dta_except"
    /\ exc = ValueError
    /\ report = Some(<<1, 2>>)
    /\ i = 3
    /\ last_click = None

\* C3: the cursor never decreases; it changes only by +1, and only after
\* handle_download returned for the part with the cursor's number, or on the skip
\* of that part (marked downloaded, skip_downloaded set).
C3_CursorAdvancesOnlyOnSuccessOrSkip ==
    [][pc # "setup"
       => \/ i' = i
          \/ /\ i' = i + 1
             /\ pc = "advance"
             /\ hd # None
             /\ Val(hd).stage = "done"
             /\ last_click # None
             /\ Val(last_click).part_number = i
          \/ /\ i' = i + 1
             /\ pc = "skip_check"
             /\ skip_downloaded
             /\ Val(part_to_download).downloaded
             /\ Val(part_to_download).part_number = i]_vars

\* C3 witness: after an earlier advance, save_as raised for the clicked part and
\* the loop is back at its start with the cursor still on that part.
C3_Witness ==
    /\ pc = "confirm"
    /\ i > start_part
    /\ hd # None
    /\ Val(hd).stage = "save_as"
    /\ last_click # None
    /\ Val(last_click).part_number = i

\* C4: with skip_downloaded set, no part marked downloaded is ever clicked: the
\* cursor moves past it by one and the loop continues; without skip_downloaded
\* a part marked downloaded goes on to the click.
C4_SkipNeverClicks ==
    /\ [](last_click # None => ~(Val(last_click).downloaded /\ skip_downloaded))
    /\ [][pc = "skip_check"
           => IF Val(part_to_download).downloaded /\ skip_downloaded
              THEN i' = i + 1 /\ pc' = "confirm" /\ last_click' = last_click
              ELSE i' = i /\ pc' = "click"]_vars

\* C4 witness: a part marked downloaded was skipped and nothing was clicked.
C4_Witness ==
    /\ pc = "confirm"
    /\ skip_downloaded
    /\ part_to_download # None
    /\ Val(part_to_download).downloaded
    /\ i = Val(part_to_download).part_number + 1
    /\ last_click = None

\* C5 as stated: the escalation prompt is issued exactly in the tick that makes
\* the 10th consecutive UNKNOWN classification.
C5_EscalatesAtTenth ==
    (last_action = "unknown_prompt") <=> (unk_seq = UnknownThreshold)

\* C5 as amended: ten consecutive UNKNOWN classifications only wait; the prompt
\* is issued exactly in the tick that makes the 11th, the counter is 0 right
\* after it, and the next escalation again takes 11.
C5_EscalatesAtEleventh ==
    /\ (last_action = "unknown_prompt") <=> (unk_seq = UnknownThreshold + 1)
    /\ (last_action = "unknown_wait") <=> (unk_seq \in 1..UnknownThreshold)
    /\ last_action = "unknown_prompt" => unknown_count = 0
    /\ last_action = "unknown_wait" => unknown_count = unk_seq

\* C5 witness: the prompt of the 11th consecutive UNKNOWN, the counter reset.
C5_Witness ==
    /\ pc = "am_tick"
    /\ new_state = UNKNOWN
    /\ last_action = "unknown_prompt"
    /\ unk_seq = 11
    /\ unknown_count = 0

\* A human-blocking prompt was issued by the latest tick.
Prompted == last_action \in PromptActions

\* C6 as stated: whatever the page does, as long as it never shows the archive
\* run_until_ready issues a human-blocking prompt again and again (unless the
\* call is ended from outside).
C6_PromptsAgainAndAgain ==
    [](~detect_archive_page(page)) => (<>(pc \notin AmPcs) \/ []<>Prompted)

\* C6 as amended: a tick raises nothing but the interrupt and the failure of
\* the input() of a prompt it issues; a page classified UNKNOWN from some point
\* on is prompted for again and again; and the tick in which the classification
\* becomes NEEDS_IDENTIFIER or NEEDS_2FA (or NEEDS_PASSWORD with no credential
\* held) issues a prompt.
C6_PromptsWhileUnknown ==
    /\ [][pc = "am_tick" /\ pc' \notin {"am_tick", "am_done"}
           => (/\ pc' = "am_raised"
               /\ exc' \in {KeyboardInterrupt, EOFError}
               /\ exc' = EOFError
                    => LET s == evaluate_state(page)
                       IN /\ ShouldHandle(s, current_state)
                          /\ CallsInput(s, CountUnknowns(s, unknown_count)))]_vars
    /\ [][(/\ pc = "am_tick" /\ pc' = "am_tick"
            /\ new_state' # current_state
            /\ \/ new_state' \in {NEEDS_IDENTIFIER, NEEDS_2FA}
               \/ new_state' = NEEDS_PASSWORD /\ ~HasPass(google_pass))
           => last_action' \in PromptActions]_vars
    /\ <>[](pc = "am_tick" /\ evaluate_state(page) = UNKNOWN)
          => []<>(last_action = "unknown_prompt")

\* C6 witness: the escalation prompt on a page that is classified UNKNOWN.
C6_Witness ==
    /\ pc = "am_tick"
    /\ am_return = "am_done"
    /\ evaluate_state(page) = UNKNOWN
    /\ last_action = "unknown_prompt"

\* C7: evaluate_state returns one AuthState for every page, and NEEDS_PASSWORD
\* only for a page whose URL holds the password part and on which the query for
\* password inputs succeeds and finds at least one.
C7_PasswordNeedsInput ==
    pc = "probed"
    => /\ new_state \in AuthState
       /\ new_state = NEEDS_PASSWORD
            => /\ Contains(GOOGLE_PASSWORD_PAGE_URL_PART, page.url)
               /\ page.pwd # QueryRaises
               /\ Val(page.pwd) >= 1

\* C7 witness: the password URL alone, no input being found, is not
\* NEEDS_PASSWORD.
C7_Witness ==
    /\ pc = "probed"
    /\ page.url = GOOGLE_PASSWORD_PAGE_URL_PART
    /\ page.pwd = Some(0)
    /\ new_state = UNKNOWN

\* A link the catalog keeps: its label is "Download [again] part N of M" and it
\* has an href.
Usable(link) ==
    /\ \E a \in BOOLEAN, n \in PartNumbers : link.aria_label = GoodLabel(a, n)
    /\ ~IsNone(link.href)

\* C8 as stated: the catalog is sorted ascending by part_number and no two of
\* its records have the same part_number.
C8_SortedWithoutDuplicates ==
    pc = "extracted"
    => \A j, k \in 1..Len(parts_info) :
          j < k => parts_info[j].part_number < parts_info[k].part_number

\* C8 as amended: the catalog is sorted ascending by part_number and holds one
\* record for each link with a parseable part number and an href (the other
\* links are skipped); nothing is taken out, so it is free of duplicates when
\* those links carry different part numbers.
C8_SortedOnePerUsableLink ==
    pc = "extracted"
    => /\ \A j, k \in 1..Len(parts_info) :
            j < k => parts_info[j].part_number <= parts_info[k].part_number
       /\ Len(parts_info) = Cardinality({k \in 1..Len(links) : Usable(links[k])})
       /\ \A j \in 1..Len(parts_info) :
            \E k \in 1..Len(links) :
               /\ Usable(links[k])
               /\ links[k].aria_label \in
                     {GoodLabel(a, parts_info[j].part_number) : a \in BOOLEAN}
               /\ parts_info[j].downloaded = links[k].li_started
               /\ parts_info[j].size = links[k].data_size
       /\ (\A j, k \in 1..Len(links) :
              (j < k /\ Usable(links[j]) /\ Usable(links[k]))
              => \A n \in PartNumbers :
                    ~(/\ links[j].aria_label \in {GoodLabel(a, n) : a \in BOOLEAN}
                      /\ links[k].aria_label \in {GoodLabel(a, n) : a \in BOOLEAN}))
          => \A j, k \in 1..Len(parts_info) :
                j < k => parts_info[j].part_number < parts_info[k].part_number

\* C8 witness: part 2 rendered before part 1, and a catalog in ascending order.
C8_Witness ==
    /\ pc = "extracted"
    /\ Len(links) = 2
    /\ links[1].aria_label = GoodLabel(FALSE, 2)
    /\ links[2].aria_label = GoodLabel(TRUE, 1)
    /\ Len(parts_info) = 2
    /\ parts_info[1].part_number = 1
    /\ parts_info[2].part_number = 2

\* C9: a saved file whose size differs from the expected size never makes
\* handle_download raise: it returns, the cursor is advanced by one as after a
\* verified size, and the part is not attempted again.
C9_SizeMismatchNotFatal ==
    /\ [][(pc = "handle_download" /\ hd' # None /\ Val(hd').size_check = "mismatch")
           => (/\ Val(hd').stage = "done"
               /\ pc' = "advance"
               /\ exc' = "none"
               /\ i' = i)]_vars
    /\ [][pc = "advance"
           => (/\ i' = i + 1
               /\ pc' \in {"confirm", "dta_finally"}
               /\ hd' = hd)]_vars

\* C9 witness: the size check found a mismatch and the cursor is past the part.
C9_Witness ==
    /\ pc = "confirm"
    /\ hd # None
    /\ Val(hd).size_check = "mismatch"
    /\ last_click # None
    /\ i = Val(last_click).part_number + 1

C12_AscendingFromStartPart ==
    /\ [][pc = "click" /\ last_click' # last_click
           => (/\ last_click' = find_part_to_download(parts_info, i)
               /\ Val(last_click').part_number = i
               /\ i' = i)]_vars
    /\ [][pc # "click" => last_click' = last_click]_vars
    /\ [][last_click # None
           => (/\ last_click' # None
               /\ Val(last_click').part_number >= Val(last_click).part_number)]_vars
    /\ [](last_click # None
            => (/\ Val(last_click).part_number >= start_part
                /\ Val(last_click).part_number <= i))
    /\ [](completed = [k \in 1..(i - start_part) |-> start_part + k - 1])

\* C12 witness: a catalog whose first record is part 2; started at 2, the run
\* clicked and persisted part 2 and nothing else.
C12_Witness ==
    /\ pc = "exit"
    /\ outcome = "returned"
    /\ start_part = 2
    /\ parts_info # <<>>
    /\ parts_info[1].part_number = 2
    /\ last_click = Some(parts_info[1])
    /\ completed = <<2>>

\* C13: an archive URL that does not hold takeout.google.com/manage/archive makes
\* download_takeout_archive raise ValueError before anything else: no directory
\* is made, no context launched, no machine made, no navigation, no iteration.
C13_InvalidUrlFailsFirst ==
    /\ [][pc = "validate" /\ ~Contains(GOOGLE_ARCHIVE_URL_PART, archive_url)
           => (/\ pc' = "exit"
               /\ exc' = ValueError
               /\ outcome' = "raised")]_vars
    /\ [](pc # "validate" /\ ~Contains(GOOGLE_ARCHIVE_URL_PART, archive_url)
            => (/\ pc = "exit"
                /\ exc = ValueError
                /\ outcome = "raised"
                /\ ~dirs_created
                /\ context = "none"
                /\ close_attempts = 0
                /\ i = 0
                /\ am_archive_url = None
                /\ new_state = "unassigned"
                /\ last_action = "none"
                /\ parts_info = <<>>
                /\ last_click = None
                /\ completed = <<>>))

\* C13 witness: the sign-in URL was given; the call ended in ValueError with
\* nothing done.
C13_Witness ==
    /\ pc = "exit"
    /\ Contains(GOOGLE_IDENTIFIER_PAGE_URL_PART, archive_url)
    /\ exc = ValueError
    /\ ~dirs_created
    /\ context = "none"

\* A step of the loop of run_until_ready that classified the page (and was not
\* ended by an exception).
C14_Ticked == pc = "am_tick" /\ page' = page /\ pc' \in {"am_tick", "am_done"}

\* C14: in every tick a recovery action (prompt, password entry, unknown wait) is
\* performed if and only if the classification differs from the machine's state
\* of the tick before or is UNKNOWN (ARCHIVE_READY has no action: the call
\* returns); the machine's state is the classification of the latest tick, so a
\* stay in one non-UNKNOWN state triggers its action once and then nothing.
C14_ActsOnChangeOrUnknown ==
    /\ [][C14_Ticked
           => (/\ new_state' = evaluate_state(page)
               /\ current_state' = new_state'
               /\ new_state' = ARCHIVE_READY => last_action' = "none"
               /\ new_state' # ARCHIVE_READY
                    => ((last_action' # "none")
                          <=> (new_state' # current_state \/ new_state' = UNKNOWN))
               /\ last_action' \in PromptActions \cup {"password_auto"}
                    => new_state' # current_state \/ new_state' = UNKNOWN)]_vars
    /\ [][C14_Ticked /\ new_state' = new_state /\ new_state' # UNKNOWN
           => last_action' = "none"]_vars
    /\ [](new_state # "unassigned" => current_state = new_state)

\* C14 witness: the page stayed on the 2FA challenge for a second tick, which did
\* nothing.
C14_Witness ==
    /\ pc = "am_tick"
    /\ am_return = "am_done"
    /\ evaluate_state(page) = NEEDS_2FA
    /\ new_state = NEEDS_2FA
    /\ current_state = NEEDS_2FA
    /\ last_action = "none"

\* C15: a failure other than an interrupt inside the try block of download_files
\* (the click, the wait of 120 s for the download, the run_until_ready after the
\* click, handle_download) never leaves download_files: the step goes back to
\* the confirmation pause with the cursor unchanged and no exception pending, and
\* the iteration that follows makes a new machine with the archive URL and
\* extracts the catalog again. Only KeyboardInterrupt propagates from there.
C15_TriggerFailureRetries ==
    /\ [][InTry
           => (/\ pc' \in AmPcs \cup {"await_download", "handle_download", "advance",
                                      "confirm", "dta_except"}
               /\ pc' = "dta_except" => exc' = KeyboardInterrupt /\ interrupted'
               /\ pc' = "confirm"
                    => (/\ exc' = "none"
                        /\ ~interrupted'
                        /\ i' = i
                        /\ completed' = completed
                        /\ outcome' = "running"))]_vars
    /\ [][pc = "confirm" /\ ~interrupted'
           => (/\ pc' = "am_navigate"
               /\ am_return' = "extract"
               /\ am_archive_url' = Some(archive_url)
               /\ parts_info' = <<>>
               /\ part_to_download' = None
               /\ i' = i)]_vars

\* C15 witness: after one part was completed, input() failed in the
\* run_until_ready that follows the click of the next part; the loop is back at
\* the confirmation pause for that part.
C15_Witness ==
    /\ pc = "confirm"
    /\ ~interrupted
    /\ exc = "none"
    /\ am_return = "none"
    /\ last_click # None
    /\ Val(last_click).part_number = i
    /\ completed # <<>>

\* C16: when extract_parts_info returns no parts, download_files looks up no
\* part, clicks nothing, raises nothing and leaves the cursor: it goes back to
\* the confirmation pause, runs the authentication again and extracts again, and
\* so on for as long as the catalog is empty.
C16_EmptyCatalogRetries ==
    /\ [][pc = "extract" /\ exc' = exc /\ parts_info' = <<>>
           => (/\ pc' = "confirm"
               /\ i' = i
               /\ last_click' = last_click
               /\ part_to_download' = None
               /\ report' = report
               /\ completed' = completed
               /\ outcome' = "running")]_vars
    /\ [](pc \in {"find", "skip_check", "click", "await_download", "handle_download",
                  "advance"}
            => parts_info # <<>>)
    /\ [][pc = "confirm" /\ parts_info = <<>> /\ ~interrupted'
           => (/\ pc' = "am_navigate"
               /\ am_return' = "extract"
               /\ i' = i)]_vars

\* C16 witness: the extraction found nothing in the second iteration; the loop is
\* back at the pause with the cursor where it was and no error.
C16_Witness ==
    /\ pc = "confirm"
    /\ am_return = "extract"
    /\ new_state = ARCHIVE_READY
    /\ parts_info = <<>>
    /\ completed # <<>>
    /\ i = start_part + Len(completed)
    /\ exc = "none"
    /\ hd = None

\* C17: run_until_ready returns only in a tick that classifies the page as
\* ARCHIVE_READY, and it returns in every such tick, without a recovery action; a
\* tick that performs a recovery action never returns, and the navigation never
\* returns: the loop goes on to classify the page again.
C17_OnlyReadyReturns ==
    /\ [][pc' = "am_done" /\ pc # "am_done"
           => (/\ pc = "am_tick"
               /\ evaluate_state(page) = ARCHIVE_READY
               /\ new_state' = ARCHIVE_READY
               /\ last_action' = "none")]_vars
    /\ [][pc = "am_tick" /\ page' = page /\ evaluate_state(page) = ARCHIVE_READY
           => pc' = "am_done" \/ (pc' = "am_raised" /\ exc' = KeyboardInterrupt)]_vars
    /\ [][pc = "am_tick" /\ page' = page /\ last_action' # "none"
           => (/\ pc' = "am_tick"
               /\ new_state' # ARCHIVE_READY
               /\ new_state' = evaluate_state(page))]_vars
    /\ [][pc = "am_tick" /\ page' = page /\ pc' = "am_tick"
           => new_state' = evaluate_state(page)]_vars

\* C17 witness: the call returned in a tick that classified the archive page,
\* with no recovery action and the counter at 0.
C17_Witness ==
    /\ pc = "am_done"
    /\ detect_archive_page(page)
    /\ new_state = ARCHIVE_READY
    /\ current_state = ARCHIVE_READY
    /\ last_action = "none"
    /\ unknown_count = 0

\* C18: evaluate_state tests in the order archive, identifier, password, 2FA and
\* else answers UNKNOWN: a URL holding the archive part is ARCHIVE_READY
\* whatever else it holds; NEEDS_2FA is answered only for a challenge URL without
\* the password part; and the password URL without a password input (none found,
\* or the query raising) is never NEEDS_2FA nor NEEDS_PASSWORD: it is UNKNOWN
\* unless the URL also holds the archive or the identifier part.
C18_FixedPrecedence ==
    pc = "probed"
    => LET archive == Contains(GOOGLE_ARCHIVE_URL_PART, page.url)
           identifier == Contains(GOOGLE_IDENTIFIER_PAGE_URL_PART, page.url)
           password == Contains(GOOGLE_PASSWORD_PAGE_URL_PART, page.url)
           challenge == Contains(GOOGLE_2FA_PAGE_URL_PART, page.url)
           input == page.pwd # QueryRaises /\ Val(page.pwd) > 0
       IN /\ archive => new_state = ARCHIVE_READY
          /\ ~archive /\ identifier => new_state = NEEDS_IDENTIFIER
          /\ new_state = NEEDS_PASSWORD <=> (~archive /\ ~identifier /\ password /\ input)
          /\ new_state = NEEDS_2FA <=> (~archive /\ ~identifier /\ challenge /\ ~password)
          /\ password /\ ~input => new_state \notin {NEEDS_2FA, NEEDS_PASSWORD}
          /\ password /\ ~input /\ ~archive /\ ~identifier => new_state = UNKNOWN
          /\ new_state = UNKNOWN
               <=> (/\ ~archive
                    /\ ~identifier
                    /\ ~(password /\ input)
                    /\ ~(challenge /\ ~password))

\* C18 witness: a URL that holds the archive part and the password part, with a
\* password input on the page, is ARCHIVE_READY.
C18_Witness ==
    /\ pc = "probed"
    /\ Contains(GOOGLE_ARCHIVE_URL_PART, page.url)
    /\ Contains(GOOGLE_PASSWORD_PAGE_URL_PART, page.url)
    /\ page.pwd = Some(1)
    /\ new_state = ARCHIVE_READY

\* C19: every call of handle_download that returns has attempted to remove the
\* temporary file, with or without an expected size and whatever the size check
\* found; a removal that fails raises nothing, the file saved stays saved, and
\* the cursor is advanced for that part. (A call that raises before, in path(),
\* save_as() or stat(), has not attempted the removal.)
C19_TemporaryFileAlwaysRemoved ==
    /\ [](pc = "advance"
            => (/\ hd # None
                /\ Val(hd).stage = "done"
                /\ Val(hd).unlink_attempted
                /\ Val(hd).size_check \in {"none", "mismatch", "verified"}))
    /\ [][pc = "handle_download" /\ hd' # None /\ Val(hd').unlink_attempted
           => (/\ Val(hd').stage = "done"
               /\ pc' = "advance"
               /\ exc' = "none"
               /\ i' = i)]_vars
    /\ [](hd # None /\ Val(hd).stage # "done"
            => ~Val(hd).unlink_attempted /\ ~Val(hd).tmp_removed)
    /\ [][pc = "advance" => i' = i + 1 /\ hd' = hd /\ exc' = "none"]_vars

\* C19 witness: no expected size was known, the removal failed, and the cursor
\* is past the part.
C19_Witness ==
    /\ pc = "confirm"
    /\ hd # None
    /\ Val(hd).stage = "done"
    /\ Val(hd).size_check = "none"
    /\ Val(hd).unlink_attempted
    /\ ~Val(hd).tmp_removed
    /\ last_click # None
    /\ i = Val(last_click).part_number + 1

\* C20: the steps of an iteration happen in one order. A click happens only after,
\* in the same iteration, the pause ended without interrupt, the machine made
\* for the iteration returned on ARCHIVE_READY, and a catalog that is not empty
\* and holds the cursor's part was extracted; the record clicked is the one found
\* in that catalog. After the click one machine without URL is run (it never
\* navigates) and returns on ARCHIVE_READY before the download is awaited and
\* handle_download is called.
C20_FixedOrderInIteration ==
    /\ [][pc' \in AmPcs /\ pc \notin AmPcs
           => (/\ pc \in {"confirm", "click"}
               /\ pc' = "am_navigate"
               /\ new_state' = "unassigned"
               /\ am_return' = (IF pc = "confirm" THEN "extract" ELSE "await_download")
               /\ am_archive_url' = (IF pc = "confirm" THEN Some(archive_url) ELSE None)
               /\ ~interrupted')]_vars
    /\ [][pc' = "extract"
           => pc = "am_tick" /\ am_return = "extract" /\ new_state' = ARCHIVE_READY]_vars
    /\ [][pc' = "find" => pc = "extract" /\ parts_info' # <<>>]_vars
    /\ [][pc' = "skip_check"
           => (/\ pc = "find"
               /\ parts_info' = parts_info
               /\ part_to_download' = find_part_to_download(parts_info, i))]_vars
    /\ [][pc' = "click" => pc = "skip_check" /\ UNCHANGED <<parts_info, part_to_download>>]_vars
    /\ [](pc = "click"
            => (/\ ~interrupted
                /\ am_return = "extract"
                /\ new_state = ARCHIVE_READY
                /\ parts_info # <<>>
                /\ part_to_download = find_part_to_download(parts_info, i)
                /\ part_to_download # None
                /\ Val(part_to_download).part_number = i))
    /\ [][pc = "click" /\ last_click' # last_click => last_click' = part_to_download]_vars
    /\ [](am_return = "await_download" => am_archive_url = None /\ last_action # "goto")
    /\ [][pc' = "await_download"
           => pc = "am_tick" /\ am_return = "await_download" /\ new_state' = ARCHIVE_READY]_vars
    /\ [][pc' = "handle_download" => pc = "await_download" /\ last_click = part_to_download]_vars
    /\ [][pc' = "advance" => pc = "handle_download"]_vars

\* C20 witness: in the second iteration handle_download is about to be called for
\* the record found and clicked in it, the machine after the click having
\* returned.
C20_Witness ==
    /\ pc = "handle_download"
    /\ completed # <<>>
    /\ am_return = "await_download"
    /\ new_state = ARCHIVE_READY
    /\ last_click = part_to_download
    /\ part_to_download = find_part_to_download(parts_info, i)

\* C21: unknown_count stays within 0..11 (11 only inside the tick that prompts,
\* which resets it); while the latest classification is UNKNOWN it is the number
\* of consecutive UNKNOWN classifications of this machine since its last other
\* classification or its last escalation prompt; it is 0 after any tick that
\* classifies another state; and every machine starts at 0, so nothing is
\* carried from one run_until_ready call to the next.
C21_UnknownCountBounded ==
    /\ [](unknown_count \in 0..UnknownThreshold)
    /\ [](unk_seq \in 0..(UnknownThreshold + 1))
    /\ [][pc = "am_tick" /\ new_state' \in AuthState
           => CountUnknowns(new_state', unknown_count) \in 0..(UnknownThreshold + 1)]_vars
    /\ [](new_state # UNKNOWN => unknown_count = 0 /\ unk_seq = 0)
    /\ [](new_state = UNKNOWN
            => unknown_count = (IF last_action = "unknown_prompt" THEN 0 ELSE unk_seq))
    /\ [][pc = "am_tick" /\ new_state' = UNKNOWN /\ last_action' # "unknown_prompt"
           => unknown_count' = unknown_count + 1]_vars
    /\ [][pc' = "am_navigate" /\ pc \notin AmPcs
           => (/\ unknown_count' = 0
               /\ unk_seq' = 0
               /\ current_state' = UNKNOWN
               /\ new_state' = "unassigned")]_vars
    /\ [][pc' \notin AmPcs /\ pc \in AmPcs => (unknown_count' = 0)]_vars

\* C21 witness: the machine made after the click of the second iteration has
\* counted ten consecutive UNKNOWN classifications.
C21_Witness ==
    /\ pc = "am_tick"
    /\ am_return = "await_download"
    /\ completed # <<>>
    /\ new_state = UNKNOWN
    /\ last_action = "unknown_wait"
    /\ unk_seq = UnknownThreshold
    /\ unknown_count = UnknownThreshold

\* C22: on NEEDS_PASSWORD the automated entry is made only when a credential is
\* held; without one (None or the empty string) the action is the human prompt
\* alone. With a credential the tick ends in the automated entry or, when that
\* raised, in the human prompt, and nothing the entry raises leaves
\* run_until_ready: a NEEDS_PASSWORD tick is left only by the interrupt or by the
\* failure of an input() call itself. The credential is never changed, and after
\* each of these actions the machine classifies again.
C22_PasswordEntryFallsBack ==
    /\ [][google_pass' = google_pass]_vars
    /\ [](last_action \in {"password_auto", "password_fallback"}
            => HasPass(google_pass) /\ new_state = NEEDS_PASSWORD)
    /\ [](last_action = "password_manual"
            => ~HasPass(google_pass) /\ new_state = NEEDS_PASSWORD)
    /\ [][(/\ pc = "am_tick"
            /\ new_state' = NEEDS_PASSWORD
            /\ current_state # NEEDS_PASSWORD)
           => (/\ pc' = "am_tick"
               /\ exc' = exc
               /\ current_state' = NEEDS_PASSWORD
               /\ last_action' \in (IF HasPass(google_pass)
                                    THEN {"password_auto", "password_fallback"}
                                    ELSE {"password_manual"}))]_vars
    /\ [][(/\ pc = "am_tick"
            /\ pc' \notin {"am_tick", "am_done"}
            /\ evaluate_state(page) = NEEDS_PASSWORD)
           => (/\ pc' = "am_raised"
               /\ exc' \in {KeyboardInterrupt, EOFError})]_vars

\* C22 witness: with a credential held the automated entry raised, the human
\* prompt was answered, and the machine is about to classify again.
C22_Witness ==
    /\ pc = "am_tick"
    /\ HasPass(google_pass)
    /\ current_state = NEEDS_PASSWORD
    /\ new_state = NEEDS_PASSWORD
    /\ last_action = "password_fallback"
    /\ exc = "none"

====
